---- MODULE Spec2Model ----
(***************************************************************************)
(* A model of the IceCereum core: the Cryptocurrency ledger                *)
(* (Blockchain/Chain.py), its Block (Blockchain/Block.py), the mining node *)
(* (MiningNode/miner.py) and the /transfer-funds and /mine-block handlers   *)
(* of API/chain-API.py.                                                     *)
(*                                                                         *)
(* Representation choices.                                                 *)
(*  - Amounts are Python floats; here they are fixed-point integers in     *)
(*    thousandths of a coin (the literal 1 of the code is OneCoin).        *)
(*  - sha3_256 is taken to be injective: a digest is the tuple of exactly  *)
(*    the values the code feeds to the hash, in the order it formats them. *)
(*    The literals 0 and "0" both print as "0"; they are the empty tuple.  *)
(*  - A Python dict is a sequence of <<key, value>> entries in insertion   *)
(*    order; assigning to an existing key keeps the entry's position.      *)
(*    Pool keys are the decimal strings str() makes of the counter.        *)
(*  - An address string is one of a few named strings; Lower gives its     *)
(*    str.lower() image.                                                   *)
(***************************************************************************)
EXTENDS Integers, Sequences, FiniteSets, TLC

\* ------------------------------------------------------------------ bounds
MaxTx     == 2   \* user transactions admitted in one run
MaxChain  == 3   \* blocks in the chain
MaxMined  == 1   \* blocks mined while sessions are followed
MaxClock  == 6   \* last instant of the clock (minutes)
MaxTokens == 1   \* challenges issued
MaxNonce  == 1   \* largest proof-of-work nonce the search may stop at
MaxFill   == 11  \* user transactions admitted while a large pool is followed
MaxSnapshot == 4 \* transactions in a snapshot whose rewards are sampled

\* ------------------------------------------------------- program constants
OneCoin           == 1000  \* the float 1.0 in thousandths
Difficulty        == 2     \* self._difficulty
PercentRewarded   == 100   \* self._percentage_of_transactions_rewarded = 0.1
FeeThreshold      == 10    \* R <= 10 in set_metaparams
SessionLifetime   == 5     \* timedelta(minutes=5)

\* ----------------------------------------------------------------- strings
AddrA      == "0xa1"       \* account a, lower-case hex
AddrAMixed == "0xA1"       \* account a, checksum (mixed) case
AddrB      == "0xb2"
AddrBMixed == "0xB2"
AddrOther  == "0xC3"       \* an address nobody holds the key of
Malformed  == "zz"         \* not an address
MINING_ADDRESS == "0x0acc" \* miner-API.py MINING_ADDRESS (lower-case hex)
GenesisName    == "Genesis"
RewardsName    == "IceCereum-Rewards"
PaymentName    == "IceCereum-MiningPayment"

\* str.lower()
Lower(s) ==
    CASE s = AddrAMixed  -> AddrA
      [] s = AddrBMixed  -> AddrB
      [] s = AddrOther   -> "0xc3"
      [] s = GenesisName -> "genesis"
      [] s = RewardsName -> "icecereum-rewards"
      [] s = PaymentName -> "icecereum-miningpayment"
      [] OTHER           -> s

\* Web3().isAddress: 0x-prefixed hex, all lower case or a valid checksum
isAddress(s) == s \in {AddrA, AddrAMixed, AddrB, AddrBMixed, MINING_ADDRESS}

\* str(n) of a non-negative int: its decimal digits
str(n) == ToString(n)

HexDigits ==
    <<"0", "1", "2", "3", "4", "5", "6", "7", "8", "9",
      "a", "b", "c", "d", "e", "f">>

RECURSIVE hex(_)
\* hex(n)[2:]: the hexadecimal digits of n, without the 0x prefix
hex(n) ==
    IF n < Len(HexDigits) THEN HexDigits[n + 1]
    ELSE hex(n \div Len(HexDigits)) \o HexDigits[(n % Len(HexDigits)) + 1]

\* ------------------------------------------------------------ dict helpers
RECURSIVE DictFind(_, _, _)
\* position of key k in dict d at or after position i, 0 when absent
DictFind(d, k, i) ==
    IF i > Len(d) THEN 0
    ELSE IF d[i][1] = k THEN i ELSE DictFind(d, k, i + 1)

\* d[k] = v
DictSet(d, k, v) ==
    LET p == DictFind(d, k, 1)
    IN  IF p = 0 THEN Append(d, <<k, v>>)
        ELSE [d EXCEPT ![p] = <<k, v>>]

\* d[k]
DictGet(d, k) == d[DictFind(d, k, 1)][2]

DictKeys(d) == {d[i][1] : i \in 1..Len(d)}

\* ------------------------------------------------------------------ Block
ZeroHash == <<>>

\* a block_hash whose string leaves the timestamp out
block_hash_undated(b) ==
    <<b.block_index, b.mined_block_hash, b.transactions,
      b.previous_block_hash, b.difficulty>>

\* Block.block_hash
block_hash(b) ==
    <<b.block_index, b.mined_block_hash, b.transactions,
      b.previous_block_hash, b.difficulty, b.timestamp>>

\* ----------------------------------------------------------- Cryptocurrency
\* Cryptocurrency.__init__ without create_genesis
EmptyLedger ==
    [index |-> 0, chain |-> <<>>, transaction_number |-> 0, TXPOOL |-> <<>>,
     mining_fees |-> OneCoin, reward_for_transaction |-> (3 * OneCoin) \div 2]

ExpTable == <<1105, 1221, 1350, 1492, 1649, 1822, 2014, 2226, 2460, 2718>>

RECURSIVE ExpTenths(_)
\* exp(n/10) in thousandths, rounded, for n >= 1; beyond the table
\* exp(n/10) = e * exp((n - 10)/10)
ExpTenths(n) ==
    IF n <= Len(ExpTable) THEN ExpTable[n]
    ELSE (ExpTable[Len(ExpTable)] * ExpTenths(n - Len(ExpTable))) \div OneCoin

\* Mu of set_metaparams
Mu(R) == IF R <= FeeThreshold THEN OneCoin ELSE ExpTenths(R - FeeThreshold)

\* a set_metaparams that stores the fee and leaves the reward
set_metaparams_fee_only(L) ==
    [L EXCEPT !.mining_fees = Mu(L.transaction_number)]

\* Cryptocurrency.set_metaparams
set_metaparams(L) ==
    LET R == L.transaction_number
    IN  [L EXCEPT !.mining_fees = Mu(R),
                  !.reward_for_transaction = (3 * Mu(R)) \div 2]

\* the transaction dict of add_transaction, txhash included
Transaction(sendr, recvr, value, fee, ts, skscript) ==
    LET sk == IF skscript = "" THEN sendr ELSE skscript
    IN  [sendr_addr |-> Lower(sendr), recvr_addr |-> Lower(recvr),
         value |-> value, mining_fee |-> fee, final_value |-> value - fee,
         skscript |-> sk, timestamp |-> ts,
         txhash |-> <<Lower(sendr), Lower(recvr), value, fee, value - fee,
                      sk, ts>>]

\* an add_transaction whose pool dict is still the one the last block holds
add_transaction_shared(L, sendr, recvr, value, fee, ts, skscript) ==
    LET tx == Transaction(sendr, recvr, value, fee, ts, skscript)
        k  == str(L.transaction_number)
        n  == Len(L.chain)
    IN  [L EXCEPT !.TXPOOL = DictSet(L.TXPOOL, k, tx),
                  !.transaction_number = L.transaction_number + 1,
                  !.chain = IF n = 0 THEN L.chain
                            ELSE [L.chain EXCEPT ![n].transactions =
                                    DictSet(L.chain[n].transactions, k, tx)]]

\* Cryptocurrency.add_transaction
add_transaction(L, sendr, recvr, value, fee, ts, skscript) ==
    [L EXCEPT !.TXPOOL = DictSet(L.TXPOOL, str(L.transaction_number),
                           Transaction(sendr, recvr, value, fee, ts, skscript)),
              !.transaction_number = L.transaction_number + 1]

\* previous_hash taken from the miner's hash of the last block instead of
\* its block_hash
previous_hash_mined(L) ==
    IF L.index # 0 THEN L.chain[Len(L.chain)].mined_block_hash ELSE ZeroHash

\* previous_hash of create_block
previous_hash(L) ==
    IF L.index # 0 THEN block_hash(L.chain[Len(L.chain)]) ELSE ZeroHash

\* the Block built by create_block
NewBlock(L, mined_block_hash, nonce, ts) ==
    [block_index |-> L.index, mined_block_hash |-> mined_block_hash,
     previous_block_hash |-> previous_hash(L), nonce |-> nonce,
     difficulty |-> Difficulty, transactions |-> L.TXPOOL, timestamp |-> ts]

\* block_dict of create_block, the record written to <index>.json
block_dict(L, mined_block_hash, nonce, ts) ==
    [block_index |-> L.index, previous_block_hash |-> previous_hash(L),
     difficulty |-> Difficulty, nonce |-> nonce,
     mined_block_hash |-> mined_block_hash,
     percent_tx_rewarded |-> PercentRewarded,
     mining_fee |-> L.mining_fees,
     reward_for_tx |-> L.reward_for_transaction,
     transactions |-> L.TXPOOL, timestamp |-> ts]

\* json.dump(block_dict, F, indent = 2): the members of the JSON object in
\* the order the dict was built; the pool's keys are strings and are
\* written as they are
dump(record) ==
    <<<<"block_index", record.block_index>>,
      <<"previous_block_hash", record.previous_block_hash>>,
      <<"difficulty", record.difficulty>>,
      <<"nonce", record.nonce>>,
      <<"mined_block_hash", record.mined_block_hash>>,
      <<"percent_tx_rewarded", record.percent_tx_rewarded>>,
      <<"mining_fee", record.mining_fee>>,
      <<"reward_for_tx", record.reward_for_tx>>,
      <<"transactions", record.transactions>>,
      <<"timestamp", record.timestamp>>>>

\* a load that builds the Block without the stored timestamp, so that
\* Block.__init__ stamps it with the time of loading
load_block_restamped(document, ts) ==
    [block_index |-> DictGet(document, "block_index"),
     mined_block_hash |-> DictGet(document, "mined_block_hash"),
     previous_block_hash |-> DictGet(document, "previous_block_hash"),
     nonce |-> DictGet(document, "nonce"),
     difficulty |-> DictGet(document, "difficulty"),
     transactions |-> DictGet(document, "transactions"),
     timestamp |-> ts]

\* the Block load_chain builds from the document json.load reads, at time
\* ts; the stored timestamp is a non-empty string, so it is the one kept
load_block(document, ts) ==
    [block_index |-> DictGet(document, "block_index"),
     mined_block_hash |-> DictGet(document, "mined_block_hash"),
     previous_block_hash |-> DictGet(document, "previous_block_hash"),
     nonce |-> DictGet(document, "nonce"),
     difficulty |-> DictGet(document, "difficulty"),
     transactions |-> DictGet(document, "transactions"),
     timestamp |-> DictGet(document, "timestamp")]

\* Cryptocurrency.load_chain, rglob having listed the files of blocks_path
\* as block_files
load_chain(L, d, block_files) ==
    [L EXCEPT !.index = Len(block_files),
              !.chain = L.chain \o
                  [k \in 1..Len(block_files) |->
                      load_block(d[block_files[k]], 0)]]

\* a reset that empties the pool and keeps the counter
reset_pool_keep_counter(L) == [L EXCEPT !.TXPOOL = <<>>]

\* the pool and counter reset of create_block
reset_pool(L) == [L EXCEPT !.TXPOOL = <<>>, !.transaction_number = 0]

\* a create_block that does not advance self.index
create_block_same_index(L, mined_block_hash, nonce, ts) ==
    LET block == NewBlock(L, mined_block_hash, nonce, ts)
        M     == reset_pool(set_metaparams(L))
    IN  [M EXCEPT !.chain = Append(L.chain, block)]

\* Cryptocurrency.create_block after the block file was written
create_block(L, mined_block_hash, nonce, ts) ==
    LET block == NewBlock(L, mined_block_hash, nonce, ts)
        M     == reset_pool([set_metaparams(L) EXCEPT !.index = L.index + 1])
    IN  [M EXCEPT !.chain = Append(L.chain, block)]

\* a genesis that is charged the mining fee of a new ledger
GenesisLedger_with_fee(address, amount, ts) ==
    create_block(
        add_transaction(EmptyLedger, GenesisName, address, amount,
                        EmptyLedger.mining_fees, ts, ""),
        ZeroHash, "0", ts)

\* Cryptocurrency.__init__ with create_genesis
GenesisLedger(address, amount, ts) ==
    create_block(
        add_transaction(EmptyLedger, GenesisName, address, amount, 0, ts, ""),
        ZeroHash, "0", ts)

RECURSIVE ScanDict(_, _, _, _)
\* one pass of get_balance_of_addr over the transactions of dict d from
\* position i on; acc is <<flag_wallet_exists, wallet_balance>>
ScanDict(d, address, i, acc) ==
    IF i > Len(d) THEN acc
    ELSE LET tx   == d[i][2]
             sent == IF tx.sendr_addr = address
                     THEN <<TRUE, acc[2] - tx.value>> ELSE acc
             recv == IF tx.recvr_addr = address
                     THEN <<TRUE, sent[2] + tx.final_value>> ELSE sent
         IN  ScanDict(d, address, i + 1, recv)

RECURSIVE ScanChain(_, _, _, _)
\* the loop of get_balance_of_addr over self.chain from block i on
ScanChain(chain, address, i, acc) ==
    IF i > Len(chain) THEN acc
    ELSE ScanChain(chain, address, i + 1,
                   ScanDict(chain[i].transactions, address, 1, acc))

\* Cryptocurrency.get_balance_of_addr: <<exists, balance>>
get_balance_of_addr(L, address) ==
    ScanDict(L.TXPOOL, Lower(address), 1,
             ScanChain(L.chain, Lower(address), 1, <<FALSE, 0>>))

\* the deepcopy of a transaction with the two keys get_transactions_of_addr
\* sets on it
tagged(tx, type, in_txpool) ==
    [type |-> type, in_txpool |-> in_txpool] @@ tx

RECURSIVE ListDict_either(_, _, _, _, _)
\* a pass that lists a transaction once, as sent, when the address is on
\* both of its sides
ListDict_either(d, address, in_txpool, i, acc) ==
    IF i > Len(d) THEN acc
    ELSE LET tx   == d[i][2]
             sent == IF tx.sendr_addr = address
                     THEN <<TRUE, DictSet(acc[2], str(Len(acc[2])),
                                          tagged(tx, "send", in_txpool))>>
                     ELSE acc
             recv == IF tx.recvr_addr = address /\ tx.sendr_addr # address
                     THEN <<TRUE, DictSet(sent[2], str(Len(sent[2])),
                                          tagged(tx, "receive", in_txpool))>>
                     ELSE sent
         IN  ListDict_either(d, address, in_txpool, i + 1, recv)

RECURSIVE ListDict(_, _, _, _, _)
\* one pass of get_transactions_of_addr over the transactions of dict d from
\* position i on; acc is <<flag_address_exists, transactions>> and tx_index
\* is the number of transactions listed so far
ListDict(d, address, in_txpool, i, acc) ==
    IF i > Len(d) THEN acc
    ELSE LET tx   == d[i][2]
             sent == IF tx.sendr_addr = address
                     THEN <<TRUE, DictSet(acc[2], str(Len(acc[2])),
                                          tagged(tx, "send", in_txpool))>>
                     ELSE acc
             recv == IF tx.recvr_addr = address
                     THEN <<TRUE, DictSet(sent[2], str(Len(sent[2])),
                                          tagged(tx, "receive", in_txpool))>>
                     ELSE sent
         IN  ListDict(d, address, in_txpool, i + 1, recv)

RECURSIVE ListChain(_, _, _, _)
\* the loop of get_transactions_of_addr over self.chain from block i on
ListChain(chain, address, i, acc) ==
    IF i > Len(chain) THEN acc
    ELSE ListChain(chain, address, i + 1,
                   ListDict(chain[i].transactions, address, FALSE, 1, acc))

\* Cryptocurrency.get_transactions_of_addr: <<exists, transactions>>; the
\* address is compared as it was passed
get_transactions_of_addr(L, address) ==
    ListDict(L.TXPOOL, address, TRUE, 1,
             ListChain(L.chain, address, 1, <<FALSE, <<>> >>))

\* the return code of validate_add_transaction
validate_code(exists, balance, value, mining_fees) ==
    IF ~exists THEN -2
    ELSE IF balance < value + mining_fees THEN -1
    ELSE 1

\* a validation that adds the transaction before it looks at the funds
validate_add_before_funds(L, incoming_tx, mining_fees, ts) ==
    LET sendr_addr == Lower(incoming_tx.sendr_addr)
        recvr_addr == Lower(incoming_tx.recvr_addr)
        bal  == get_balance_of_addr(L, sendr_addr)
        code == validate_code(bal[1], bal[2], incoming_tx.value, mining_fees)
    IN  IF code # -2
        THEN <<code, add_transaction(L, sendr_addr, recvr_addr,
                     incoming_tx.value, mining_fees, ts, incoming_tx.skscript)>>
        ELSE <<code, L>>

\* Cryptocurrency.validate_add_transaction: <<return code, ledger after>>
validate_add_transaction(L, incoming_tx, mining_fees, ts) ==
    LET sendr_addr == Lower(incoming_tx.sendr_addr)
        recvr_addr == Lower(incoming_tx.recvr_addr)
        bal  == get_balance_of_addr(L, sendr_addr)
        code == validate_code(bal[1], bal[2], incoming_tx.value, mining_fees)
    IN  IF code = 1
        THEN <<1, add_transaction(L, sendr_addr, recvr_addr,
                     incoming_tx.value, mining_fees, ts, incoming_tx.skscript)>>
        ELSE <<code, L>>

\* Cryptocurrency.get_latest_block_metaparams; raises on an empty chain
metaparams_raises(L) == Len(L.chain) = 0

get_latest_block_metaparams(L) ==
    [index |-> L.index, TXPOOL |-> L.TXPOOL,
     prev_hash |-> block_hash(L.chain[Len(L.chain)]),
     difficulty |-> Difficulty, mining_fees |-> L.mining_fees,
     num_tx_TXPOOL |-> L.transaction_number,
     reward_for_tx |-> L.reward_for_transaction,
     percent_tx_rewarded |-> PercentRewarded]

\* ------------------------------------------------------------------ miner
\* reward_tx: the addresses are stored as given, not lower-cased
reward_tx(TXPOOL, recvr_addr, reward, sendr_addr, ts) ==
    DictSet(TXPOOL, str(Len(TXPOOL)),
        [sendr_addr |-> sendr_addr, recvr_addr |-> recvr_addr,
         value |-> reward, mining_fee |-> 0, final_value |-> reward,
         skscript |-> sendr_addr, timestamp |-> ts,
         txhash |-> <<sendr_addr, recvr_addr, reward, 0, reward,
                      sendr_addr, ts>>])

\* draws that stop when floor(k) transactions are chosen
RewardDraws_floor(N) ==
    IF PercentRewarded * N < OneCoin
    THEN {<<>>} \cup {<<i>> : i \in 0..(N - 1)}
    ELSE LET m == (PercentRewarded * N) \div OneCoin
         IN  {d \in [1..m -> 0..(N - 1)] :
                 \A i, j \in 1..m : i # j => d[i] # d[j]}

\* the outcomes of the random draws of mine for a snapshot of N transactions:
\* the sequence of rewarded transaction numbers, in the order they are drawn
RewardDraws(N) ==
    IF PercentRewarded * N < OneCoin
    THEN {<<>>} \cup {<<i>> : i \in 0..(N - 1)}
    ELSE LET m == (PercentRewarded * N) \div OneCoin
         IN  {d \in [1..(m + 1) -> 0..(N - 1)] :
                 \A i, j \in 1..(m + 1) : i # j => d[i] # d[j]}

\* randint(0, -1) raises when the draw asks to reward one of no transactions
draw_raises(N) == N = 0

RECURSIVE RewardAll(_, _, _, _, _)
\* the reward_tx calls of mine for the drawn transaction numbers
RewardAll(TXPOOL, draw, i, reward, ts) ==
    IF i > Len(draw) THEN TXPOOL
    ELSE RewardAll(
            reward_tx(TXPOOL, DictGet(TXPOOL, str(draw[i])).sendr_addr, reward,
                      RewardsName, ts),
            draw, i + 1, reward, ts)

\* a pool whose payment to the miner is one reward, whatever the fees were
augmented_pool_pays_reward(mine_params, miner_addr, draw, ts) ==
    reward_tx(
        RewardAll(mine_params.TXPOOL, draw, 1, mine_params.reward_for_tx, ts),
        miner_addr, mine_params.reward_for_tx, PaymentName, ts)

\* the pool mine returns: rewards, then the payment to the miner
augmented_pool(mine_params, miner_addr, draw, ts) ==
    LET N == Len(mine_params.TXPOOL)
    IN  reward_tx(
            RewardAll(mine_params.TXPOOL, draw, 1,
                      mine_params.reward_for_tx, ts),
            miner_addr, N * mine_params.mining_fees, PaymentName, ts)

\* block_str of mine
block_str(mine_params, TXPOOL) ==
    <<mine_params.index, TXPOOL, mine_params.prev_hash,
      mine_params.difficulty, mine_params.mining_fees,
      mine_params.reward_for_tx, mine_params.percent_tx_rewarded>>

\* n_zeroes of the digests: zeros[n + 1] is the number of leading zero
\* digits of sha3_256(block_str + hex(n)). The digest is not computed here;
\* each search is given the counts of its candidates, and one of the first
\* MaxNonce + 1 candidates ends it.
ZeroCounts ==
    {zeros \in [1..(MaxNonce + 1) ->
                  {Difficulty - 1, Difficulty, Difficulty + 1}] :
        \E n \in 1..(MaxNonce + 1) : zeros[n] = Difficulty}

RECURSIVE pow_search_at_least(_, _, _)
\* a search that stops at the first digest with difficulty zeros or more
pow_search_at_least(difficulty, zeros, nonce_int) ==
    IF zeros[nonce_int + 1] >= difficulty THEN nonce_int
    ELSE pow_search_at_least(difficulty, zeros, nonce_int + 1)

RECURSIVE pow_search(_, _, _)
\* the while loop of mine: the nonce_int it breaks at
pow_search(difficulty, zeros, nonce_int) ==
    IF zeros[nonce_int + 1] = difficulty THEN nonce_int
    ELSE pow_search(difficulty, zeros, nonce_int + 1)

\* a proof of work that adds one to nonce_int before it leaves the loop
proof_of_work_incremented(block_string, difficulty, zeros) ==
    LET nonce_int == pow_search(difficulty, zeros, 0) + 1
    IN  <<<<block_string, hex(nonce_int)>>, hex(nonce_int)>>

\* the proof of work of mine: <<hash_string, hex(nonce_int)[2:]>>
proof_of_work(block_string, difficulty, zeros) ==
    LET nonce_int == pow_search(difficulty, zeros, 0)
    IN  <<<<block_string, hex(nonce_int)>>, hex(nonce_int)>>

\* mine: <<hash_string, nonce, TXPOOL>>
mine(mine_params, miner_addr, draw, zeros, ts) ==
    LET TXPOOL == augmented_pool(mine_params, miner_addr, draw, ts)
        found  == proof_of_work(block_str(mine_params, TXPOOL),
                                mine_params.difficulty, zeros)
    IN  <<found[1], found[2], TXPOOL>>

\* ------------------------------------------------------------- chain-API
VARIABLES
    Crypto,    \* the global Cryptocurrency instance
    disk,      \* blocks_path: file index -> the JSON object in <index>.json
    session,   \* the client's session cookie
    now,       \* the clock, in minutes
    tokens,    \* number of one_time_nonce values drawn so far
    consumed,  \* the one_time_nonce values an admission was made on
    issued,    \* one_time_nonce -> the minute its challenge was answered
    op         \* the last request served and its outcome

vars == <<Crypto, disk, session, now, tokens, consumed, issued, op>>

ledger == <<Crypto, disk>>

\* the clock is observed every TickStep minutes: one step outlasts a session
TickStep == SessionLifetime + 1

EmptySession ==
    [has_identifier |-> FALSE, identifier |-> "", has_nonce |-> FALSE,
     one_time_nonce |-> 0, stamp |-> 0]

\* flask open_session: a cookie older than permanent_session_lifetime is void
open_session(sess, t) ==
    IF t - sess.stamp > SessionLifetime THEN EmptySession ELSE sess

\* flask save_session: a permanent session is re-stamped with every response
save_session(sess, t) ==
    IF sess = EmptySession THEN sess ELSE [sess EXCEPT !.stamp = t]

\* keys held by clients, and the address Account.recover_message returns
Keys == {"a", "b"}
KeyAddress(k) == IF k = "a" THEN AddrAMixed ELSE AddrBMixed

\* a 65-byte signature by key k over message m, and one of another length
Sign(k, m) == [length_ok |-> TRUE, signer |-> k, msg |-> m]
ShortSignature == [length_ok |-> FALSE, signer |-> "", msg |-> <<>>]

\* Account.recover_message: the signer's address for the signed message, an
\* unrelated address for any other message
recover_message(m, sig) ==
    IF sig.msg = m THEN KeyAddress(sig.signer) ELSE AddrOther

\* message_to_sign: the two addresses have fixed width and the nonce is the
\* last 32 characters, so the concatenation determines its four parts
message_to_sign(sendr_addr, recvr_addr, value, nonce) ==
    <<sendr_addr, recvr_addr, value, nonce>>

\* an authentication that recovers the address and does not compare it
authenticate_no_compare(request_body, one_time_nonce) ==
    IF ~request_body.skscript_nonce.length_ok THEN 4 ELSE 0

\* the skscript authentication of add_transaction: the error number, 0 if none
authenticate(request_body, one_time_nonce) ==
    LET m == message_to_sign(request_body.sendr_addr, request_body.recvr_addr,
                             request_body.value, one_time_nonce)
    IN  IF ~request_body.skscript_nonce.length_ok THEN 4
        ELSE IF request_body.sendr_addr #
                    Lower(recover_message(m, request_body.skscript_nonce))
             THEN 5
             ELSE 0

\* the checks of the POST branch that precede validate_add_transaction
post_checks(L, sess, request_body) ==
    IF metaparams_raises(L) THEN "Unhandled"
    ELSE IF ~sess.has_identifier \/ ~sess.has_nonce THEN "MissingSession"
    ELSE IF ~request_body.complete THEN "MissingField"
    ELSE IF ~isAddress(request_body.sendr_addr)
              \/ ~isAddress(request_body.recvr_addr) THEN "MalformedAddress"
    ELSE IF authenticate(request_body, sess.one_time_nonce) = 4
         THEN "SignatureLengthInvalid"
    ELSE IF authenticate(request_body, sess.one_time_nonce) = 5
         THEN "SignatureMismatch"
    ELSE "Authenticated"

\* the message of the POST response for a validate_add_transaction code
transaction_added(code) ==
    CASE code = -1 -> "InsufficientFunds"
      [] code = -2 -> "SenderUnknown"
      [] OTHER     -> "Admitted"

\* error_desc_add_transaction for the two failures of the signature check:
\* what the client receives
error_desc_add_transaction(error_number) ==
    CASE error_number = 4 ->
           [message |-> "SIGNATURE VALIDTION ERROR - UNEXPECTED RECOVERABLE SIGNATURE LENGTH",
            success |-> FALSE, status |-> 200]
      [] error_number = 5 ->
           [message |-> "SIGNATURE VALIDTION ERROR - SIGNATURES DO NOT MATCH",
            success |-> FALSE, status |-> 200]

\* the request bodies clients send
SenderStrings   == {AddrA, AddrAMixed, AddrB, Malformed}
ReceiverStrings == {AddrA, AddrBMixed, Malformed}
Values          == {OneCoin, 2 * OneCoin}
Scripts         == {"sig"}
ChallengeStrings == {AddrA, AddrB}

\* a signature over the request's own fields and any nonce issued so far
SignaturesFor(s, r, v) ==
    {ShortSignature} \cup
    {Sign(k, message_to_sign(s, r, v, n)) : k \in Keys, n \in 1..tokens}

CompleteRequests ==
    UNION {
      {[sendr_addr |-> f[1], recvr_addr |-> f[2], value |-> f[3],
        skscript |-> sk, skscript_nonce |-> sig, complete |-> TRUE] :
          sk \in Scripts, sig \in SignaturesFor(f[1], f[2], f[3])} :
      f \in SenderStrings \X ReceiverStrings \X Values}

\* a body that lacks one of the six keys fails before any field is read
Requests ==
    CompleteRequests \cup
    {[sendr_addr |-> AddrA, recvr_addr |-> AddrBMixed, value |-> OneCoin,
      skscript |-> "sig", skscript_nonce |-> ShortSignature,
      complete |-> FALSE]}

\* what is left in blocks_path when the write of create_block ends as `how`
PersistOutcomes == {"written", "open_failed"}

persist(d, file_index, record, how) ==
    IF how = "written" THEN (file_index :> record) @@ d ELSE d

\* a create_block that empties the pool before it writes the block file
api_create_block_resets_first(L, d, mined_block_hash, nonce, ts, how) ==
    IF how = "written"
    THEN << 1, create_block(L, mined_block_hash, nonce, ts),
            persist(d, L.index,
                    dump(block_dict(L, mined_block_hash, nonce, ts)), how)>>
    ELSE <<-1, reset_pool(L), persist(d, L.index,
                    dump(block_dict(L, mined_block_hash, nonce, ts)), how)>>

\* create_block of chain-API.py: <<stat, ledger after, disk after>>
api_create_block(L, d, mined_block_hash, nonce, ts, how) ==
    IF how = "written"
    THEN << 1, create_block(L, mined_block_hash, nonce, ts),
            persist(d, L.index,
                    dump(block_dict(L, mined_block_hash, nonce, ts)), how)>>
    ELSE <<-1, L, persist(d, L.index,
                    dump(block_dict(L, mined_block_hash, nonce, ts)), how)>>

\* mine_block replaces the pool by the miner's before it creates the block
replace_pool(L, transactions) == [L EXCEPT !.TXPOOL = transactions]

GenesisAmount == 3 * OneCoin

Init ==
    /\ Crypto \in {EmptyLedger, GenesisLedger(AddrAMixed, GenesisAmount, 0)}
    /\ disk = IF Crypto = EmptyLedger THEN <<>>
              ELSE persist(<<>>, 0,
                     dump(block_dict(add_transaction(EmptyLedger, GenesisName,
                                       AddrAMixed, GenesisAmount, 0, 0, ""),
                                     ZeroHash, "0", 0)), "written")
    /\ session = EmptySession
    /\ now = 0
    /\ tokens = 0
    /\ consumed = {}
    /\ issued = <<>>
    /\ op = [name |-> "init", outcome |-> "Constructed"]

RECURSIVE CountUser(_, _)
\* the transactions of dict d that a client submitted
CountUser(d, i) ==
    IF i > Len(d) THEN 0
    ELSE (IF isAddress(d[i][2].sendr_addr) THEN 1 ELSE 0) + CountUser(d, i + 1)

RECURSIVE CountUserChain(_, _)
CountUserChain(chain, i) ==
    IF i > Len(chain) THEN 0
    ELSE CountUser(chain[i].transactions, 1) + CountUserChain(chain, i + 1)

UserTxCount(L) == CountUserChain(L.chain, 1) + CountUser(L.TXPOOL, 1)

\* GET /transfer-funds
Challenge(has_sendr_addr, sendr_addr) ==
    LET sess == open_session(session, now)
    IN  /\ tokens < MaxTokens
        /\ IF ~has_sendr_addr
           THEN /\ session' = save_session(sess, now)
                /\ op' = [name |-> "challenge", outcome |-> "MissingField"]
                /\ UNCHANGED <<tokens, issued>>
           ELSE IF metaparams_raises(Crypto)
           THEN /\ session' = [sess EXCEPT !.has_identifier = TRUE,
                                           !.identifier = sendr_addr,
                                           !.stamp = now]
                /\ op' = [name |-> "challenge", outcome |-> "Unhandled"]
                /\ UNCHANGED <<tokens, issued>>
           ELSE /\ session' = [has_identifier |-> TRUE,
                               identifier |-> sendr_addr, has_nonce |-> TRUE,
                               one_time_nonce |-> tokens + 1, stamp |-> now]
                /\ op' = [name |-> "challenge", outcome |-> "Issued"]
                /\ tokens' = tokens + 1
                /\ issued' = ((tokens + 1) :> now) @@ issued
        /\ UNCHANGED <<Crypto, disk, now, consumed>>

\* a POST branch that charges the fee a new ledger starts with
post_transfer_funds_first_fee(L, sess, request_body, ts) ==
    LET checks == post_checks(L, sess, request_body)
        added  == validate_add_transaction(L, request_body,
                                           EmptyLedger.mining_fees, ts)
    IN  IF checks = "Authenticated"
        THEN [outcome |-> transaction_added(added[1]), Crypto |-> added[2]]
        ELSE [outcome |-> checks, Crypto |-> L]

\* the POST branch of add_transaction on ledger L with session sess:
\* the outcome and the ledger it leaves
post_transfer_funds(L, sess, request_body, ts) ==
    LET checks == post_checks(L, sess, request_body)
        added  == validate_add_transaction(L, request_body, L.mining_fees, ts)
    IN  IF checks = "Authenticated"
        THEN [outcome |-> transaction_added(added[1]), Crypto |-> added[2]]
        ELSE [outcome |-> checks, Crypto |-> L]

\* POST /transfer-funds while the ledger holds fewer than `limit` transfers
RespondWithin(limit, request_body) ==
    LET sess == open_session(session, now)
        resp == post_transfer_funds(Crypto, sess, request_body, now)
    IN  /\ UserTxCount(Crypto) < limit
        /\ Crypto' = resp.Crypto
        /\ consumed' = IF resp.outcome = "Admitted"
                       THEN consumed \cup {sess.one_time_nonce} ELSE consumed
        /\ session' = save_session(sess, now)
        /\ op' = [name |-> "respond", outcome |-> resp.outcome]
        /\ UNCHANGED <<disk, now, tokens, issued>>

Respond(request_body) == RespondWithin(MaxTx, request_body)

\* a call of create_block(mined_block_hash, nonce) of chain-API.py
Seal(mined_block_hash, nonce, how) ==
    LET r == api_create_block(Crypto, disk, mined_block_hash, nonce, now, how)
    IN  /\ Len(Crypto.chain) < MaxChain
        /\ Crypto' = r[2]
        /\ disk' = r[3]
        /\ op' = [name |-> "seal",
                  outcome |-> IF r[1] = 1 THEN "BlockCreated"
                              ELSE "ErrorCreatingBlock"]
        /\ UNCHANGED <<session, now, tokens, consumed, issued>>

\* GET /mine-block; the server is single-threaded, so the request to the
\* mining node and the commit are one step
mine_block(draws, zeros, how) ==
    /\ IF metaparams_raises(Crypto) \/ (draws /\ draw_raises(Len(Crypto.TXPOOL)))
       THEN /\ op' = [name |-> "mine", outcome |-> "Unhandled"]
            /\ UNCHANGED ledger
       ELSE \E draw \in IF draws THEN RewardDraws(Len(Crypto.TXPOOL)) \ {<<>>}
                        ELSE RewardDraws(Len(Crypto.TXPOOL)) \cap {<<>>} :
              LET POST_data   == get_latest_block_metaparams(Crypto)
                  mining_resp == mine(POST_data, MINING_ADDRESS, draw,
                                      zeros, now)
                  r == api_create_block(
                          replace_pool(Crypto, mining_resp[3]), disk,
                          mining_resp[1], mining_resp[2], now, how)
              IN  /\ Crypto' = r[2]
                  /\ disk' = r[3]
                  /\ op' = [name |-> "mine",
                            outcome |-> IF r[1] = 1 THEN "BlockCreated"
                                        ELSE "ErrorCreatingBlock"]
    /\ UNCHANGED <<session, now, tokens, consumed, issued>>

\* GET /mine-block while the chain and the pool are within the bounds
MineBlock(draws, zeros, how) ==
    /\ Len(Crypto.chain) < MaxChain
    /\ Len(Crypto.TXPOOL) <= MaxTx
    /\ mine_block(draws, zeros, how)

\* time passes
Tick ==
    /\ now + TickStep <= MaxClock
    /\ now' = now + TickStep
    /\ op' = [name |-> "tick", outcome |-> "Elapsed"]
    /\ UNCHANGED <<Crypto, disk, session, tokens, consumed, issued>>

\* a call of validate_add_transaction as the POST branch makes it: the sender
\* is the lower-case address the signature recovered to, the receiver is
\* well-formed and the fee is the one in force
AdmitWithin(limit, sendr_addr, recvr_addr, value, skscript) ==
    LET added == validate_add_transaction(Crypto,
                    [sendr_addr |-> sendr_addr, recvr_addr |-> recvr_addr,
                     value |-> value, skscript |-> skscript],
                    Crypto.mining_fees, now)
    IN  /\ UserTxCount(Crypto) < limit
        /\ Crypto' = added[2]
        /\ op' = [name |-> "admit", outcome |-> transaction_added(added[1])]
        /\ UNCHANGED <<disk, session, now, tokens, consumed, issued>>

Admit(sendr_addr, recvr_addr, value, skscript) ==
    AdmitWithin(MaxTx, sendr_addr, recvr_addr, value, skscript)

SealHashes == {<<"00ab">>}
AuthenticSenders == {AddrA, AddrB}

\* the service: the ledger behind its HTTP handlers
Next ==
    \/ \E h \in BOOLEAN, s \in ChallengeStrings : Challenge(h, s)
    \/ \E request_body \in Requests : Respond(request_body)
    \/ \E draws \in BOOLEAN, zeros \in ZeroCounts, how \in PersistOutcomes :
          Len(Crypto.chain) < MaxMined + 1 /\ MineBlock(draws, zeros, how)
    \/ Tick

Spec == Init /\ [][Next]_vars

\* GET /mine-block up to its request to the mining node: the handler posts
\* the metaparameters and waits for the reply
PostToMiner ==
    /\ op.outcome # "Searching"
    /\ ~metaparams_raises(Crypto)
    /\ Len(Crypto.chain) < MaxMined + 1
    /\ Len(Crypto.TXPOOL) <= MaxTx
    /\ op' = [name |-> "mine", outcome |-> "Searching",
              POST_data |-> get_latest_block_metaparams(Crypto)]
    /\ UNCHANGED <<Crypto, disk, session, now, tokens, consumed, issued>>

\* GET /mine-block from the reply of the mining node on: the pool is
\* replaced by the reply's transactions and the block is created
MinerReplied(draws, zeros, how) ==
    /\ op.outcome = "Searching"
    /\ IF draws /\ draw_raises(Len(op.POST_data.TXPOOL))
       THEN /\ op' = [name |-> "mine", outcome |-> "Unhandled"]
            /\ UNCHANGED ledger
       ELSE \E draw \in IF draws
                        THEN RewardDraws(Len(op.POST_data.TXPOOL)) \ {<<>>}
                        ELSE RewardDraws(Len(op.POST_data.TXPOOL)) \cap {<<>>} :
              LET mining_resp == mine(op.POST_data, MINING_ADDRESS, draw,
                                      zeros, now)
                  r == api_create_block(
                          replace_pool(Crypto, mining_resp[3]), disk,
                          mining_resp[1], mining_resp[2], now, how)
              IN  /\ Crypto' = r[2]
                  /\ disk' = r[3]
                  /\ op' = [name |-> "mine",
                            outcome |-> IF r[1] = 1 THEN "BlockCreated"
                                        ELSE "ErrorCreatingBlock"]
    /\ UNCHANGED <<session, now, tokens, consumed, issued>>

\* app.run(threaded=False): one request is handled at a time, so no other
\* handler starts while /mine-block waits for the mining node
Idle == op.outcome # "Searching"

ServeChallenge ==
    Idle /\ \E h \in BOOLEAN, s \in ChallengeStrings : Challenge(h, s)

ServeResponse ==
    Idle /\ \E request_body \in Requests : Respond(request_body)

\* the service with the search of the mining node in flight
NextServer ==
    \/ ServeChallenge
    \/ ServeResponse
    \/ PostToMiner
    \/ \E draws \in BOOLEAN, zeros \in ZeroCounts, how \in PersistOutcomes :
          MinerReplied(draws, zeros, how)

SpecServer == Init /\ [][NextServer]_vars

\* the orders in which rglob("*.json") may list the files of blocks_path:
\* the order is the directory's, which no code sorts
Enumerations(d) ==
    {block_files \in [1..Cardinality(DOMAIN d) -> DOMAIN d] :
        \A i, j \in DOMAIN block_files :
            i # j => block_files[i] # block_files[j]}

\* Cryptocurrency.get_complete_chain, rglob having listed the files of
\* blocks_path as block_files: the documents keyed by their place in the list
get_complete_chain(d, block_files) ==
    [k \in 1..Len(block_files) |-> <<str(k - 1), d[block_files[k]]>>]

\* blocks_path after Cryptocurrency(create_genesis = True, address, amount)
\* was constructed on it: every instance made without a blocks_path argument
\* uses the directory "Blocks"
constructed_on(d, address, amount, ts) ==
    persist(d, 0,
        dump(block_dict(add_transaction(EmptyLedger, GenesisName,
                                        address, amount, 0, ts, ""),
                        ZeroHash, "0", ts)), "written")

\* GET /load-chain: a new instance that loads the files of blocks_path
LoadChain(block_files) ==
    /\ Crypto' = load_chain(EmptyLedger, disk, block_files)
    /\ op' = [name |-> "load", outcome |-> "Loaded"]
    /\ UNCHANGED <<disk, session, now, tokens, consumed, issued>>

\* GET /create-genesis: a new instance with the genesis block, whose file
\* is written to blocks_path
CreateGenesis(address, amount) ==
    /\ Crypto' = GenesisLedger(address, amount, now)
    /\ disk' = constructed_on(disk, address, amount, now)
    /\ op' = [name |-> "genesis", outcome |-> "Created",
              address |-> address, amount |-> amount]
    /\ UNCHANGED <<session, now, tokens, consumed, issued>>

GenesisAddresses == {AddrAMixed, AddrB}
GenesisAmounts   == {GenesisAmount, 2 * OneCoin}

\* the ledger across restarts: admissions and seals, with the chain created
\* anew or loaded from blocks_path at any moment
NextRestart ==
    \/ \E s \in AuthenticSenders, sk \in Scripts :
          Admit(s, AddrBMixed, OneCoin, sk)
    \/ \E m \in SealHashes : Seal(m, hex(MaxNonce), "written")
    \/ \E block_files \in Enumerations(disk) : LoadChain(block_files)
    \/ \E address \in GenesisAddresses, amount \in GenesisAmounts :
          CreateGenesis(address, amount)

SpecRestart == Init /\ [][NextRestart]_vars

\* a pause shorter than the session lifetime
ShortStep == SessionLifetime - 2

Pause ==
    /\ now + ShortStep <= MaxClock
    /\ now' = now + ShortStep
    /\ op' = [name |-> "tick", outcome |-> "Elapsed"]
    /\ UNCHANGED <<Crypto, disk, session, tokens, consumed, issued>>

\* one client's session: challenges and responses with pauses between them
NextSession ==
    \/ \E h \in BOOLEAN, s \in ChallengeStrings : Challenge(h, s)
    \/ \E request_body \in Requests : Respond(request_body)
    \/ Pause
    \/ Tick

SpecSession == Init /\ [][NextSession]_vars

\* the ledger alone: admissions, seals and mined blocks, no sessions
NextLedger ==
    \/ \E s \in AuthenticSenders, r \in ReceiverStrings \ {Malformed},
          v \in Values, sk \in Scripts : Admit(s, r, v, sk)
    \/ \E m \in SealHashes, how \in PersistOutcomes : Seal(m, hex(MaxNonce), how)
    \/ \E draws \in BOOLEAN, zeros \in ZeroCounts, how \in PersistOutcomes :
          MineBlock(draws, zeros, how)

SpecLedger == Init /\ [][NextLedger]_vars

\* a genesis large enough to pay for a pool beyond the fee threshold
LargeAmount == 40 * OneCoin

InitLarge ==
    /\ Crypto \in {EmptyLedger, GenesisLedger(AddrAMixed, LargeAmount, 0)}
    /\ disk = IF Crypto = EmptyLedger THEN <<>>
              ELSE persist(<<>>, 0,
                     dump(block_dict(add_transaction(EmptyLedger, GenesisName,
                                       AddrAMixed, LargeAmount, 0, 0, ""),
                                     ZeroHash, "0", 0)), "written")
    /\ session = EmptySession
    /\ now = 0
    /\ tokens = 0
    /\ consumed = {}
    /\ issued = <<>>
    /\ op = [name |-> "init", outcome |-> "Constructed"]

\* the search whose first candidate digest has difficulty leading zeros
FirstDigest == [n \in 1..(MaxNonce + 1) |-> Difficulty]

\* one client transfer of two coins to b
Fill(sendr_addr) ==
    AdmitWithin(MaxFill, sendr_addr, AddrBMixed, 2 * OneCoin, "sig")

\* the ledger under load: pools that grow past the fee threshold before
\* the one block that follows the genesis is sealed or mined; every block
\* file is written
NextFees ==
    \/ \E s \in AuthenticSenders : Fill(s)
    \/ \E m \in SealHashes :
          Len(Crypto.chain) < MaxMined + 1
            /\ Seal(m, hex(MaxNonce), "written")
    \/ \E draws \in BOOLEAN :
          Len(Crypto.chain) < MaxMined + 1
            /\ mine_block(draws, FirstDigest, "written")

SpecFees == InitLarge /\ [][NextFees]_vars

\* the requests for the transfer Fill makes: two coins from a to b
TransferRequests ==
    {request_body \in CompleteRequests :
        /\ request_body.sendr_addr = AddrA
        /\ request_body.recvr_addr = AddrBMixed
        /\ request_body.value = 2 * OneCoin}

\* a session across a change of the fee: a pool filled past the fee
\* threshold is sealed between a client's challenge and its response; time
\* is seen to pass while the pool is full
NextReprice ==
    \/ Fill(AddrA)
    \/ \E h \in BOOLEAN, s \in ChallengeStrings : Challenge(h, s)
    \/ \E m \in SealHashes :
          Len(Crypto.chain) < MaxMined + 1
            /\ Seal(m, hex(MaxNonce), "written")
    \/ \E request_body \in TransferRequests :
          RespondWithin(MaxFill + 1, request_body)
    \/ Len(Crypto.TXPOOL) = MaxFill /\ Pause

SpecReprice == InitLarge /\ [][NextReprice]_vars

\* POST /mine-hash of the mining node for the challenge the ledger posts
MineHash(draws, zeros) ==
    LET request_body == get_latest_block_metaparams(Crypto)
        N == Len(Crypto.TXPOOL)
    IN  /\ ~metaparams_raises(Crypto)
        /\ IF draws /\ draw_raises(N)
           THEN op' = [name |-> "mine_hash", outcome |-> "Unhandled",
                       zeros |-> zeros, response |-> <<>>]
           ELSE \E draw \in IF draws THEN RewardDraws(N) \ {<<>>}
                            ELSE RewardDraws(N) \cap {<<>>} :
                  op' = [name |-> "mine_hash", outcome |-> "Mined",
                         zeros |-> zeros,
                         response |-> mine(request_body, MINING_ADDRESS,
                                           draw, zeros, now)]
        /\ UNCHANGED <<Crypto, disk, session, now, tokens, consumed, issued>>

\* the mining node alone, challenged with the pools clients fill: every
\* reward draw with a search that ends at once, and every search for the
\* pools whose draw rewards nobody
NextMiner ==
    \/ \E s \in AuthenticSenders : Fill(s)
    \/ \E draws \in BOOLEAN : MineHash(draws, FirstDigest)
    \/ \E zeros \in ZeroCounts \ {FirstDigest} : MineHash(FALSE, zeros)

SpecMiner == InitLarge /\ [][NextMiner]_vars

\* the worked example: a genesis of a thousand coins to a, transfers of a
\* hundred coins
ScenarioAmount == 1000 * OneCoin
ScenarioValue  == 100 * OneCoin

InitScenario ==
    /\ Crypto = GenesisLedger(AddrAMixed, ScenarioAmount, 0)
    /\ disk = constructed_on(<<>>, AddrAMixed, ScenarioAmount, 0)
    /\ session = EmptySession
    /\ now = 0
    /\ tokens = 0
    /\ consumed = {}
    /\ issued = <<>>
    /\ op = [name |-> "init", outcome |-> "Constructed"]

NextScenario ==
    \/ \E s \in AuthenticSenders, r \in ReceiverStrings \ {Malformed},
          v \in {ScenarioValue, OneCoin}, sk \in Scripts : Admit(s, r, v, sk)
    \/ \E draws \in BOOLEAN, zeros \in ZeroCounts, how \in PersistOutcomes :
          MineBlock(draws, zeros, how)

SpecScenario == InitScenario /\ [][NextScenario]_vars

\* the values a request may carry: float(incoming_tx["value"]) accepts any
\* number, below the fee, zero and negative included
AnyValues == {0 - OneCoin, 0, OneCoin \div 2, OneCoin, 2 * OneCoin}

\* the ledger with transfers of any value
NextValues ==
    \/ \E s \in AuthenticSenders, r \in ReceiverStrings \ {Malformed},
          v \in AnyValues, sk \in Scripts : Admit(s, r, v, sk)
    \/ \E m \in SealHashes, how \in PersistOutcomes : Seal(m, hex(MaxNonce), how)

SpecValues == Init /\ [][NextValues]_vars

\* the fractions of rewarded transactions a request to /mine-hash may carry
RewardFractions == {0, PercentRewarded, OneCoin \div 2, OneCoin}

\* mine up to its reward loop, for a snapshot of N transactions: below one
\* rewarded transaction the single draw settles the rewards at once;
\* otherwise rewarded_tx starts empty and the loop is entered
StartSampling(percent_tx_rewarded, N) ==
    /\ op.outcome # "Sampling"
    /\ IF percent_tx_rewarded * N < OneCoin
       THEN \E draw \in {<<>>} \cup {<<i>> : i \in 0..(N - 1)} :
              op' = [name |-> "sample", outcome |-> "Sampled", N |-> N,
                     percent_tx_rewarded |-> percent_tx_rewarded,
                     num_tx_rewarded |-> 0, rewarded_tx |-> draw]
       ELSE op' = [name |-> "sample", outcome |-> "Sampling", N |-> N,
                   percent_tx_rewarded |-> percent_tx_rewarded,
                   num_tx_rewarded |-> (percent_tx_rewarded * N) \div OneCoin,
                   rewarded_tx |-> <<>>]
    /\ UNCHANGED <<Crypto, disk, session, now, tokens, consumed, issued>>

\* one pass of the while loop: randint draws tx_num, which is appended
\* unless it was drawn before
DrawSample(tx_num) ==
    /\ op.outcome = "Sampling"
    /\ Len(op.rewarded_tx) <= op.num_tx_rewarded
    /\ tx_num \in 0..(op.N - 1)
    /\ op' = [op EXCEPT !.rewarded_tx =
                 IF \E k \in 1..Len(@) : @[k] = tx_num THEN @
                 ELSE Append(@, tx_num)]
    /\ UNCHANGED <<Crypto, disk, session, now, tokens, consumed, issued>>

\* the loop is left when rewarded_tx holds more than num_tx_rewarded numbers
EndSampling ==
    /\ op.outcome = "Sampling"
    /\ Len(op.rewarded_tx) > op.num_tx_rewarded
    /\ op' = [op EXCEPT !.outcome = "Sampled"]
    /\ UNCHANGED <<Crypto, disk, session, now, tokens, consumed, issued>>

\* the reward sampling of mine for the snapshots and fractions it may get
NextSampling ==
    \/ \E percent_tx_rewarded \in RewardFractions, N \in 1..MaxSnapshot :
          StartSampling(percent_tx_rewarded, N)
    \/ \E tx_num \in 0..(MaxSnapshot - 1) : DrawSample(tx_num)
    \/ EndSampling

SpecSampling == Init /\ [][NextSampling]_vars

\* every number is drawn again and again: randint is uniform
FairSampling ==
    SpecSampling
      /\ \A tx_num \in 0..(MaxSnapshot - 1) : WF_vars(DrawSample(tx_num))
      /\ WF_vars(EndSampling)

\* a restart under load: pools that grow past the fee threshold are sealed
\* and the chain is loaded again from blocks_path
NextReload ==
    \/ Fill(AddrA)
    \/ \E m \in SealHashes :
          Len(Crypto.chain) < MaxMined + 1
            /\ Seal(m, hex(MaxNonce), "written")
    \/ \E block_files \in Enumerations(disk) : LoadChain(block_files)

SpecReload == InitLarge /\ [][NextReload]_vars

\* ---------------------------------------------------------------- history
RECURSIVE ChainTx(_, _)
\* the transactions of the committed blocks from block i on, in block order
ChainTx(chain, i) ==
    IF i > Len(chain) THEN <<>>
    ELSE [k \in 1..Len(chain[i].transactions) |-> chain[i].transactions[k][2]]
         \o ChainTx(chain, i + 1)

\* every transaction of the history: committed blocks, then the pool
History(L) ==
    ChainTx(L.chain, 1) \o [k \in 1..Len(L.TXPOOL) |-> L.TXPOOL[k][2]]

RECURSIVE SumOver(_, _, _)
\* the sum of amount[k] over the positions k of set P
SumOver(P, amount, acc) ==
    IF P = {} THEN acc
    ELSE LET k == CHOOSE x \in P : TRUE
         IN  SumOver(P \ {k}, amount, acc + amount[k])

\* two strings that spell one address
SameAddress(s, t) == Lower(s) = Lower(t)

Received(L, addr) ==
    {k \in 1..Len(History(L)) : SameAddress(History(L)[k].recvr_addr, addr)}

Sent(L, addr) ==
    {k \in 1..Len(History(L)) : SameAddress(History(L)[k].sendr_addr, addr)}

\* received final_value minus sent value, over the whole history
NetBalance(L, addr) ==
    SumOver(Received(L, addr), [k \in 1..Len(History(L)) |->
                                   History(L)[k].final_value], 0)
    - SumOver(Sent(L, addr), [k \in 1..Len(History(L)) |->
                                   History(L)[k].value], 0)

Appears(L, addr) == Received(L, addr) \cup Sent(L, addr) # {}

LastBlock(L) == L.chain[Len(L.chain)]

\* ------------------------------------------------------------------ claims

\* C1: in every state reached from an empty or genesis ledger by admissions,
\* seals and mined blocks, each block's previous_block_hash is the hash
\* recomputed from the fields of the block before it, and the first block's
\* is the sentinel.
C1_ChainLinked ==
    \A i \in 1..Len(Crypto.chain) :
        Crypto.chain[i].previous_block_hash =
            IF i = 1 THEN ZeroHash ELSE block_hash(Crypto.chain[i - 1])

\* a chain of three blocks whose middle block holds transactions
C1_Witness ==
    /\ Len(Crypto.chain) >= 3
    /\ Len(Crypto.chain[2].transactions) > 0
    /\ op.outcome = "BlockCreated"

\* the key that controls the address a string spells
KeyOf(s) == IF SameAddress(s, AddrA) THEN "a" ELSE "b"

\* the session a POST finds
Live == open_session(session, now)

\* the request reaches the signature recovery of the POST branch
ReachesRecovery(rb) ==
    /\ Len(Crypto.chain) > 0
    /\ Live.has_identifier /\ Live.has_nonce
    /\ rb.complete
    /\ isAddress(rb.sendr_addr) /\ isAddress(rb.recvr_addr)
    /\ rb.skscript_nonce.length_ok

\* the address recovered from the request's signature over its own fields
\* and the session's token
Recovered(rb) ==
    recover_message(
        message_to_sign(rb.sendr_addr, rb.recvr_addr, rb.value,
                        Live.one_time_nonce),
        rb.skscript_nonce)

\* C2: once a response on a token has been admitted, no later response in
\* the same session on that token is admitted.
C2_TokenSingleUse ==
    [][(op'.name = "respond" /\ op'.outcome = "Admitted")
          => Live.one_time_nonce \notin consumed]_vars

\* C3: a response is admitted only if the address recovered from its
\* signature over sender, receiver, value and the session token spells the
\* claimed sender; when recovery yields another address the outcome is
\* SignatureMismatch and the ledger is unchanged.
C3_AdmitOnlyRecoveredSender ==
    \A rb \in Requests :
        LET resp == post_transfer_funds(Crypto, Live, rb, now)
        IN  /\ resp.outcome = "Admitted" =>
                  /\ ReachesRecovery(rb)
                  /\ SameAddress(Recovered(rb), rb.sendr_addr)
            /\ (ReachesRecovery(rb)
                  /\ ~SameAddress(Recovered(rb), rb.sendr_addr)) =>
                  /\ resp.outcome = "SignatureMismatch"
                  /\ resp.Crypto = Crypto

\* a response signed by another key was refused while the pool held a
\* transaction
C3_Witness ==
    /\ op = [name |-> "respond", outcome |-> "SignatureMismatch"]
    /\ Len(Crypto.TXPOOL) > 0

\* C4: a response whose sender is not the address the challenge was issued
\* for is not admitted.
C4_TokenBoundToSender ==
    [][(op'.name = "respond" /\ op'.outcome = "Admitted")
          => SameAddress(
               DictGet(Crypto'.TXPOOL,
                       str(Crypto.transaction_number)).sendr_addr,
               Live.identifier)]_vars

\* C5: a complete response that follows a challenge, names a well-formed
\* sender in any letter case and a well-formed receiver, is signed by the
\* sender's key over its fields and the session token, and whose sender holds
\* value + fee, is admitted and adds one transaction to the pool.
C5_ValidResponseAdmitted ==
    \A rb \in Requests :
        (/\ ReachesRecovery(rb)
         /\ rb.skscript_nonce =
              Sign(KeyOf(rb.sendr_addr),
                   message_to_sign(rb.sendr_addr, rb.recvr_addr, rb.value,
                                   Live.one_time_nonce))
         /\ NetBalance(Crypto, rb.sendr_addr)
              >= rb.value + Crypto.mining_fees)
          => LET resp == post_transfer_funds(Crypto, Live, rb, now)
             IN  /\ resp.outcome = "Admitted"
                 /\ Len(resp.Crypto.TXPOOL) = Len(Crypto.TXPOOL) + 1

\* the strings a balance may be asked for
QueryStrings ==
    {AddrA, AddrAMixed, AddrB, AddrBMixed, MINING_ADDRESS, Malformed,
     GenesisName, RewardsName, PaymentName}

\* C6: for every address, get_balance_of_addr returns the final_value
\* received minus the value sent over all committed and pool transactions,
\* and exists exactly when some transaction names the address.
C6_BalanceIsNetOfHistory ==
    \A addr \in QueryStrings :
        get_balance_of_addr(Crypto, addr) =
            <<Appears(Crypto, addr), NetBalance(Crypto, addr)>>

\* C7: validate_add_transaction answers SenderUnknown exactly when no
\* transaction names the sender, otherwise InsufficientFunds exactly when the
\* balance is below value + fee, otherwise Admitted, and then the pool has
\* grown by exactly the one transaction with the given fields.
C7_ValidateTriState ==
    [][\A s \in AuthenticSenders, r \in ReceiverStrings \ {Malformed},
          v \in Values, sk \in Scripts :
          Admit(s, r, v, sk) =>
            LET fee == Crypto.mining_fees
                expected ==
                    IF ~Appears(Crypto, s) THEN "SenderUnknown"
                    ELSE IF NetBalance(Crypto, s) < v + fee
                         THEN "InsufficientFunds" ELSE "Admitted"
                pool == Crypto'.TXPOOL
            IN  /\ op'.outcome = expected
                /\ expected = "Admitted" =>
                     /\ Len(pool) = Len(Crypto.TXPOOL) + 1
                     /\ SubSeq(pool, 1, Len(Crypto.TXPOOL)) = Crypto.TXPOOL
                     /\ pool[Len(pool)][2].sendr_addr = Lower(s)
                     /\ pool[Len(pool)][2].recvr_addr = Lower(r)
                     /\ pool[Len(pool)][2].value = v
                     /\ pool[Len(pool)][2].mining_fee = fee
                /\ expected # "Admitted" => Crypto' = Crypto]_vars

\* C8: a response with any outcome other than Admitted leaves the pool, its
\* counter, the chain, the index, the fee and the reward, and the block
\* files, as they were.
C8_RefusalChangesNothing ==
    [][(op'.name = "respond" /\ op'.outcome # "Admitted")
          => (Crypto' = Crypto /\ disk' = disk)]_vars

\* a response was refused for lack of funds while the pool held a
\* transaction
C8_Witness ==
    /\ op = [name |-> "respond", outcome |-> "InsufficientFunds"]
    /\ Len(Crypto.TXPOOL) > 0

\* C9: a successful create_block appends exactly one block that holds the
\* pool of the moment of the call, the given hash and nonce and the current
\* difficulty, and leaves the pool empty with counter 0; the admission that
\* follows gets key 0.
C9_SealCommitsPool ==
    [][/\ \A m \in SealHashes :
            (Seal(m, hex(MaxNonce), "written")) =>
               /\ LastBlock(Crypto').transactions = Crypto.TXPOOL
               /\ LastBlock(Crypto').mined_block_hash = m
               /\ LastBlock(Crypto').nonce = hex(MaxNonce)
       /\ op'.outcome = "BlockCreated" =>
            /\ Len(Crypto'.chain) = Len(Crypto.chain) + 1
            /\ SubSeq(Crypto'.chain, 1, Len(Crypto.chain)) = Crypto.chain
            /\ LastBlock(Crypto').difficulty = Difficulty
            /\ Crypto'.TXPOOL = <<>>
            /\ Crypto'.transaction_number = 0
       /\ (op'.outcome = "Admitted" /\ op.outcome = "BlockCreated") =>
            DictKeys(Crypto'.TXPOOL) = {str(0)}]_vars

\* a transaction was admitted right after a block that holds transactions
\* was sealed
C9_Witness ==
    /\ op = [name |-> "admit", outcome |-> "Admitted"]
    /\ Len(Crypto.chain) >= 2
    /\ Len(LastBlock(Crypto).transactions) > 0
    /\ DictKeys(Crypto.TXPOOL) = {str(0)}

\* C10: when the block file cannot be written, the pool, its counter, the
\* chain, the index and the metaparameters are what they were before the
\* seal was requested.
C10_FailedSealRestores ==
    [][op'.outcome = "ErrorCreatingBlock" => Crypto' = Crypto]_vars

\* C11: after every successful seal, direct or of the miner's augmented
\* pool, the fee in force is f(R) for R the number of transactions of the
\* block just appended, where f is 1 up to ten transactions and above one
\* and strictly increasing beyond.
C11_FeeFollowsSealedPool ==
    [][op'.outcome = "BlockCreated" =>
         LET R == Len(LastBlock(Crypto').transactions)
         IN  /\ Crypto'.mining_fees = Mu(R)
             /\ R <= FeeThreshold => Mu(R) = OneCoin
             /\ R > FeeThreshold =>
                   (Mu(R) > OneCoin /\ Mu(R + 1) > Mu(R))]_vars

C13_IndexIsPosition ==
    /\ \A i \in 1..Len(Crypto.chain) : Crypto.chain[i].block_index = i - 1
    /\ Crypto.index = Len(Crypto.chain)

\* a mined block has filled the chain up to its bound
C13_Witness ==
    /\ op = [name |-> "mine", outcome |-> "BlockCreated"]
    /\ Len(Crypto.chain) = MaxChain
    /\ LastBlock(Crypto).block_index = MaxChain - 1

\* C14: a block that is in the chain stays in it at its position with every
\* field as it was, through every later admission, seal and mined block, so
\* the hash recomputed from it does not change.
C14_BlocksImmutable ==
    [][\A i \in 1..Len(Crypto.chain) :
          /\ i <= Len(Crypto'.chain)
          /\ Crypto'.chain[i] = Crypto.chain[i]
          /\ block_hash(Crypto'.chain[i]) = block_hash(Crypto.chain[i])]_vars

\* a transfer was admitted after the genesis block and a second block that
\* holds transactions were committed
C14_Witness ==
    /\ op = [name |-> "admit", outcome |-> "Admitted"]
    /\ Len(Crypto.chain) >= 2
    /\ Len(Crypto.chain[1].transactions) > 0
    /\ Len(Crypto.chain[2].transactions) > 0

\* the snapshot the mining node was given and the pool it answered with
Snapshot == Crypto.TXPOOL

Answered == op.response[3]

\* the entries mine added between the snapshot and the miner's payment
Rewards == SubSeq(Answered, Len(Snapshot) + 1, Len(Answered) - 1)

\* C15: for every outcome of the reward draw, mine returns a pool that holds
\* the snapshot unchanged under its keys, then the reward transactions, then
\* as last entry one payment from the mining-payment account to the miner
\* of value and final_value N x fee and fee 0, N being the snapshot size.
C15_MinerPaymentLast ==
    op.name = "mine_hash" =>
        /\ op.outcome = "Mined"
        /\ Len(Answered) > Len(Snapshot)
        /\ SubSeq(Answered, 1, Len(Snapshot)) = Snapshot
        /\ \A i \in 1..Len(Rewards) :
              Rewards[i][2].sendr_addr = RewardsName
        /\ LET payment == Answered[Len(Answered)][2]
               N == Len(Snapshot)
           IN  /\ payment.sendr_addr = PaymentName
               /\ payment.recvr_addr = MINING_ADDRESS
               /\ payment.value = N * Crypto.mining_fees
               /\ payment.final_value = N * Crypto.mining_fees
               /\ payment.mining_fee = 0

AnsweredNonces == {n \in 0..MaxNonce : hex(n) = op.response[2]}

\* C17: when the search of mine returns, the digest is the hash of the
\* challenge string followed by hex(nonce), the digest has exactly
\* difficulty leading zero digits, and no smaller nonce gives a digest with
\* exactly difficulty leading zeros.
C17_FirstExactNonce ==
    (op.name = "mine_hash" /\ op.outcome = "Mined") =>
        /\ op.response[1] =
              <<block_str(get_latest_block_metaparams(Crypto), Answered),
                op.response[2]>>
        /\ \E n \in AnsweredNonces :
              /\ op.zeros[n + 1] = Difficulty
              /\ \A m \in 0..(n - 1) : op.zeros[m + 1] # Difficulty

\* the search passed a first digest with too few zeros and stopped at the
\* second candidate
C17_Witness ==
    /\ op.name = "mine_hash" /\ op.outcome = "Mined"
    /\ op.zeros[1] = Difficulty - 1
    /\ op.response[2] = hex(1)
    /\ Len(Snapshot) > 0

\* C18 as stated: a candidate digest with difficulty + 1 leading zeros that
\* the search reaches is accepted, and its nonce is the one returned.
C18_OneMoreZeroAccepted ==
    (op.name = "mine_hash" /\ op.outcome = "Mined") =>
        \A n \in 0..MaxNonce :
            (/\ op.zeros[n + 1] = Difficulty + 1
             /\ \A m \in 0..(n - 1) :
                   op.zeros[m + 1] \notin {Difficulty, Difficulty + 1})
              => op.response[2] = hex(n)

\* C18 amended: a candidate digest with difficulty + 1 leading zeros is not
\* accepted; the search goes on and returns a later nonce whose digest has
\* exactly difficulty leading zeros.
C18_OneMoreZeroRejected ==
    (op.name = "mine_hash" /\ op.outcome = "Mined") =>
        \A n \in 0..MaxNonce :
            op.zeros[n + 1] = Difficulty + 1 =>
                /\ op.response[2] # hex(n)
                /\ \A a \in AnsweredNonces : op.zeros[a + 1] = Difficulty

\* the first digest had difficulty + 1 leading zeros and the node answered
\* with the second nonce
C18_Witness ==
    /\ op.name = "mine_hash" /\ op.outcome = "Mined"
    /\ op.zeros[1] = Difficulty + 1
    /\ op.response[2] = hex(1)

HashedVariants(b) ==
    {[b EXCEPT !.block_index = v] : v \in 0..MaxChain}
    \cup {[b EXCEPT !.mined_block_hash = v] : v \in {ZeroHash} \cup SealHashes}
    \cup {[b EXCEPT !.previous_block_hash = v] :
            v \in {ZeroHash}
                  \cup {block_hash(Crypto.chain[i]) :
                          i \in 1..Len(Crypto.chain)}}
    \cup {[b EXCEPT !.difficulty = v] : v \in {Difficulty, Difficulty + 1}}
    \cup {[b EXCEPT !.transactions = v] :
            v \in {<<>>, Crypto.TXPOOL}
                  \cup {Crypto.chain[i].transactions :
                          i \in 1..Len(Crypto.chain)}}
    \cup {[b EXCEPT !.timestamp = v] : v \in 0..MaxClock}

\* the blocks that differ from block b in the nonce
NonceVariants(b) == {[b EXCEPT !.nonce = hex(n)] : n \in 0..(MaxNonce + 1)}

\* C20 as stated: a block that differs from a committed block in exactly
\* one of index, mined hash, previous hash, nonce, difficulty, transactions
\* and timestamp has another block_hash.
C20_EveryFieldHashed ==
    \A i \in 1..Len(Crypto.chain) :
        \A c \in HashedVariants(Crypto.chain[i])
                  \cup NonceVariants(Crypto.chain[i]) :
            c # Crypto.chain[i] => block_hash(c) # block_hash(Crypto.chain[i])

\* C20 amended: a block that differs from a committed block in exactly one
\* of index, mined hash, previous hash, difficulty, transactions and
\* timestamp has another block_hash; one that differs in the nonce alone
\* has the same block_hash.
C20_EveryFieldButNonceHashed ==
    \A i \in 1..Len(Crypto.chain) :
        /\ \A c \in HashedVariants(Crypto.chain[i]) :
              c # Crypto.chain[i] =>
                  block_hash(c) # block_hash(Crypto.chain[i])
        /\ \A c \in NonceVariants(Crypto.chain[i]) :
              block_hash(c) = block_hash(Crypto.chain[i])

\* the chain holds a mined block with transactions whose search ended at
\* the second nonce
C20_Witness ==
    /\ op = [name |-> "mine", outcome |-> "BlockCreated"]
    /\ Len(Crypto.chain) >= 2
    /\ LastBlock(Crypto).nonce = hex(1)
    /\ Len(LastBlock(Crypto).transactions) > 1

\* the sides of the history's transactions on which `address` stands, as
\* <<position in the history, side>>: in history order, the sender's side
\* of a transaction before its receiver's side
Hits(L, address) ==
    LET H     == History(L)
        slots == [j \in 1..(2 * Len(H)) |->
                    <<(j + 1) \div 2,
                      IF j % 2 = 1 THEN "send" ELSE "receive">>]
        hit(slot) == IF slot[2] = "send"
                     THEN H[slot[1]].sendr_addr = address
                     ELSE H[slot[1]].recvr_addr = address
    IN  SelectSeq(slots, hit)

C22_AdmittedAtCurrentFee ==
    [][/\ (op'.name = "respond" /\ op'.outcome = "Admitted") =>
            LET tx == DictGet(Crypto'.TXPOOL, str(Crypto.transaction_number))
            IN  /\ tx.mining_fee = Crypto.mining_fees
                /\ tx.mining_fee >= 0
                /\ tx.final_value = tx.value - tx.mining_fee
        /\ \A i \in 1..Len(Crypto'.TXPOOL) :
              isAddress(Crypto'.TXPOOL[i][2].sendr_addr) =>
                 Crypto'.TXPOOL[i][2].mining_fee = Crypto'.mining_fees]_vars

\* a response admitted at a fee that a seal raised after its challenge
C22_Witness ==
    /\ op.name = "respond" /\ op.outcome = "Admitted"
    /\ Len(Crypto.chain) = 2
    /\ Crypto.mining_fees > OneCoin
    /\ \E n \in consumed : issued[n] < Crypto.chain[2].timestamp
    /\ Crypto.TXPOOL[Len(Crypto.TXPOOL)][2].mining_fee = Crypto.mining_fees

\* the session holds a one_time_nonce whose challenge was answered no more
\* than SessionLifetime minutes ago
ChallengeInWindow ==
    /\ session.has_nonce
    /\ session.one_time_nonce \in DOMAIN issued
    /\ now - issued[session.one_time_nonce] <= SessionLifetime

\* C23: a response is admitted only if its session was challenged no more
\* than five minutes before; a response with no challenge before it, or with
\* one older than five minutes, ends as MissingSession and leaves the ledger
\* as it was
C23_AdmittedWithinWindow ==
    [][op'.name = "respond" =>
          /\ op'.outcome = "Admitted" => ChallengeInWindow
          /\ ~ChallengeInWindow =>
                op'.outcome = "MissingSession" /\ Crypto' = Crypto]_vars

\* C24: while the search of a seal is in flight, a challenge and a response
\* on the same ledger can still be served
C24_ServedDuringSearch ==
    op.outcome = "Searching" =>
        /\ tokens < MaxTokens => ENABLED ServeChallenge
        /\ UserTxCount(Crypto) < MaxTx => ENABLED ServeResponse

\* C25: after load_chain the chain holds the persisted blocks in index order
\* (the block at position i has index i) and the next index is the number of
\* block files, in whatever order the directory lists the files
C25_LoadedInIndexOrder ==
    op.name = "load" =>
        /\ Crypto.index = Cardinality(DOMAIN disk)
        /\ Len(Crypto.chain) = Cardinality(DOMAIN disk)
        /\ \A i \in 1..Len(Crypto.chain) : Crypto.chain[i].block_index = i - 1

\* C26: every GET and POST of /transfer-funds, for every payload and every
\* ledger state (a ledger with no block included), ends with one of the
\* enumerated outcomes; none ends in an unhandled exception
C26_NoUnhandledException ==
    op.name \in {"challenge", "respond"} => op.outcome # "Unhandled"

\* the requests of a live session that fail the signature check
AuthenticationFailures ==
    {request_body \in CompleteRequests :
        post_checks(Crypto, open_session(session, now), request_body)
            \in {"SignatureLengthInvalid", "SignatureMismatch"}}

\* C27: the responses to any two requests that fail authentication are the
\* same: a signature of invalid length and a signature that recovers to
\* another address cannot be told apart
C27_AuthenticationFailuresAlike ==
    \A r1, r2 \in AuthenticationFailures :
        error_desc_add_transaction(
            authenticate(r1, open_session(session, now).one_time_nonce))
        = error_desc_add_transaction(
            authenticate(r2, open_session(session, now).one_time_nonce))

\* C28: every transaction of the pool and of the committed blocks, whoever
\* made it (a client, the genesis, a reward, the mining payment), has a
\* lower-case sender and receiver, so get_balance_of_addr finds every
\* transaction that names the address it is asked for
C28_AddressesLowerCase ==
    /\ \A k \in 1..Len(History(Crypto)) :
          /\ Lower(History(Crypto)[k].sendr_addr) = History(Crypto)[k].sendr_addr
          /\ Lower(History(Crypto)[k].recvr_addr) = History(Crypto)[k].recvr_addr
    /\ \A address \in QueryStrings :
          (\E k \in 1..Len(History(Crypto)) :
               address \in {History(Crypto)[k].sendr_addr,
                            History(Crypto)[k].recvr_addr})
             => get_balance_of_addr(Crypto, address)[1]

\* what get_complete_chain of an instance on blocks_path d may return
CompleteChains(d) ==
    {get_complete_chain(d, block_files) : block_files \in Enumerations(d)}

\* C29: ledger instances are independent, also when created with default
\* arguments: constructing a second instance with its genesis block leaves
\* what get_complete_chain of the first instance returns, and the block
\* files the first instance persisted, as they were
C29_InstancesIndependent ==
    \A address \in GenesisAddresses, amount \in GenesisAmounts :
        LET after == constructed_on(disk, address, amount, now)
        IN  /\ CompleteChains(after) = CompleteChains(disk)
            /\ \A i \in DOMAIN disk : after[i] = disk[i]

\* C30: a ledger created with its genesis for (address, amount) has exactly
\* one block, of index 0 and previous hash 0, holding exactly one
\* transaction, which credits amount to the address at fee 0; the pool is
\* empty, the transaction counter 0 and the next index 1, and
\* get_balance_of_addr(address) is (True, amount)
C30_GenesisLedger ==
    op.name = "genesis" =>
        /\ Len(Crypto.chain) = 1
        /\ Crypto.chain[1].block_index = 0
        /\ Crypto.chain[1].previous_block_hash = ZeroHash
        /\ Len(Crypto.chain[1].transactions) = 1
        /\ LET tx == Crypto.chain[1].transactions[1][2]
           IN  /\ SameAddress(tx.recvr_addr, op.address)
               /\ tx.value = op.amount
               /\ tx.mining_fee = 0
               /\ tx.final_value = op.amount
        /\ Crypto.TXPOOL = <<>>
        /\ Crypto.transaction_number = 0
        /\ Crypto.index = 1
        /\ get_balance_of_addr(Crypto, op.address) = <<TRUE, op.amount>>

\* a genesis for a mixed-case address, made over the files of an older chain
C30_Witness ==
    /\ op.name = "genesis"
    /\ op.address = AddrAMixed
    /\ Cardinality(DOMAIN disk) > 1
    /\ get_balance_of_addr(Crypto, AddrAMixed)[2] = op.amount

\* the transfer of the worked example and the pool that holds it alone
ScenarioRequest ==
    [sendr_addr |-> AddrA, recvr_addr |-> AddrBMixed, value |-> ScenarioValue,
     skscript |-> "sig"]

ScenarioGenesis ==
    /\ Len(Crypto.chain) = 1
    /\ Crypto.TXPOOL = <<>>

ScenarioPool ==
    /\ Len(Crypto.chain) = 1
    /\ Len(Crypto.TXPOOL) = 1
    /\ Crypto.TXPOOL[1][2].sendr_addr = AddrA
    /\ Crypto.TXPOOL[1][2].recvr_addr = AddrB
    /\ Crypto.TXPOOL[1][2].value = ScenarioValue

\* C31: after the genesis of 1000 to a the fee is 1; the transfer of 100
\* from a to b is admitted and leaves one pool transaction with fee 1 and
\* final_value 99, a balance of 900 for a and of 99 for b; mining that pool
\* gives a chain of two blocks, the second holding the transfer, zero or one
\* reward to a and, last, a mining payment of 1 to the miner
C31_WorkedExample ==
    [][/\ ScenarioGenesis =>
            LET added == validate_add_transaction(Crypto, ScenarioRequest,
                                                  Crypto.mining_fees, now)
                pool  == added[2].TXPOOL
            IN  /\ Crypto.mining_fees = OneCoin
                /\ added[1] = 1
                /\ Len(pool) = 1
                /\ pool[1][2].mining_fee = OneCoin
                /\ pool[1][2].final_value = 99 * OneCoin
                /\ get_balance_of_addr(added[2], AddrA) = <<TRUE, 900 * OneCoin>>
                /\ get_balance_of_addr(added[2], AddrB) = <<TRUE, 99 * OneCoin>>
       /\ (ScenarioPool /\ op'.name = "mine") =>
            /\ op'.outcome \in {"BlockCreated", "ErrorCreatingBlock"}
            /\ op'.outcome = "BlockCreated" =>
                 LET txs == Crypto'.chain[2].transactions
                     n   == Len(txs)
                 IN  /\ Len(Crypto'.chain) = 2
                     /\ n \in {2, 3}
                     /\ txs[1][2] = Crypto.TXPOOL[1][2]
                     /\ txs[n][2].sendr_addr = PaymentName
                     /\ txs[n][2].recvr_addr = MINING_ADDRESS
                     /\ txs[n][2].value = OneCoin
                     /\ n = 3 => /\ txs[2][2].sendr_addr = RewardsName
                                 /\ txs[2][2].recvr_addr = AddrA]_vars

\* the mined block of the worked example, with its reward
C31_Witness ==
    /\ op.name = "mine" /\ op.outcome = "BlockCreated"
    /\ Len(Crypto.chain) = 2
    /\ Len(Crypto.chain[2].transactions) = 3
    /\ Crypto.chain[2].transactions[1][2].value = ScenarioValue
    /\ Crypto.chain[2].transactions[1][2].recvr_addr = AddrB
    /\ get_balance_of_addr(Crypto, AddrB) = <<TRUE, 99 * OneCoin>>

\* the number of places, in the pool and the committed blocks, that hold
\* transaction t
Occurrences(L, t) ==
    Cardinality({k \in 1..Len(History(L)) : History(L)[k] = t})

\* the transactions clients submitted that ledger L holds
UserTransactions(L) ==
    {History(L)[k] : k \in {j \in 1..Len(History(L)) :
                               isAddress(History(L)[j].sendr_addr)}}

\* C32: no admitted transaction is lost or duplicated: whatever the
\* interleaving of challenges, responses and the steps of /mine-block, failed
\* and retried seals included, an admission adds one place holding its
\* transaction and no other step changes the number of places, in the pool
\* or a committed block, that hold a client's transaction
C32_AdmittedNeitherLostNorDuplicated ==
    [][\A t \in UserTransactions(Crypto) \cup UserTransactions(Crypto') :
          Occurrences(Crypto', t) =
             Occurrences(Crypto, t) +
               (IF /\ op'.name = "respond" /\ op'.outcome = "Admitted"
                   /\ t = DictGet(Crypto'.TXPOOL,
                                  str(Crypto.transaction_number))
                THEN 1 ELSE 0)]_vars

\* an admitted response that a failed seal left in the pool, under the
\* payment of the failed attempt, and that the retried /mine-block committed
C32_Witness ==
    /\ op.name = "mine" /\ op.outcome = "BlockCreated"
    /\ consumed # {}
    /\ LET txs == Crypto.chain[Len(Crypto.chain)].transactions
       IN  /\ isAddress(txs[1][2].sendr_addr)
           /\ Occurrences(Crypto, txs[1][2]) = 1
           /\ Cardinality({k \in 1..Len(txs) :
                              txs[k][2].sendr_addr = PaymentName}) = 2

\* the transaction an admission has just put in the pool
Admitted == DictGet(Crypto'.TXPOOL, str(Crypto.transaction_number))

\* C33: an admitted transfer from S to another address T never lowers the
\* balance of T and leaves every balance but those of S and T as it was,
\* whatever value it carries
C33_NoThirdPartyDebit ==
    [][(op'.name = "admit" /\ op'.outcome = "Admitted") =>
          \A address \in QueryStrings :
             LET before == get_balance_of_addr(Crypto, address)[2]
                 after  == get_balance_of_addr(Crypto', address)[2]
             IN  /\ (/\ Lower(address) = Admitted.recvr_addr
                     /\ Admitted.recvr_addr # Admitted.sendr_addr)
                       => after >= before
                 /\ Lower(address) \notin {Admitted.sendr_addr,
                                           Admitted.recvr_addr}
                       => after = before]_vars

\* C34: right after every admission the balance of the sender is at least
\* the fee, which is not negative: pending sends are counted before the
\* next is admitted, so they never add up to more than the sender held
C34_SenderKeepsTheFee ==
    [][(op'.name = "admit" /\ op'.outcome = "Admitted") =>
          /\ Admitted.mining_fee >= 0
          /\ get_balance_of_addr(Crypto', Admitted.sendr_addr)[2]
                >= Admitted.mining_fee]_vars

\* the blocks that /mine-block committed: their last transaction is the
\* payment to the miner
MinedBlocks ==
    {b \in 1..Len(Crypto.chain) :
        LET txs == Crypto.chain[b].transactions
        IN  Len(txs) > 0 /\ txs[Len(txs)][2].sendr_addr = PaymentName}

\* C35: in every block that /mine-block committed, a retried one included,
\* the value of the payment to the miner is the sum of the mining_fee of the
\* other transactions of the block
C35_PaymentIsTheFeesWithheld ==
    \A b \in MinedBlocks :
        LET txs == Crypto.chain[b].transactions
            fee == [k \in 1..(Len(txs) - 1) |-> txs[k][2].mining_fee]
        IN  txs[Len(txs)][2].value = SumOver(1..(Len(txs) - 1), fee, 0)

\* C36: the keys of the pool are "0".."n-1" for n the transaction counter,
\* after any sequence of admissions, /mine-block calls and seals that
\* succeed or fail; an admission adds a key and neither replaces nor removes
\* an entry of the pool
C36_PoolKeysDense ==
    [][/\ Len(Crypto'.TXPOOL) = Crypto'.transaction_number
       /\ \A i \in 1..Len(Crypto'.TXPOOL) : Crypto'.TXPOOL[i][1] = str(i - 1)
       /\ (op'.name = "admit" /\ op'.outcome = "Admitted") =>
             /\ Len(Crypto'.TXPOOL) = Len(Crypto.TXPOOL) + 1
             /\ \A i \in 1..Len(Crypto.TXPOOL) :
                   Crypto'.TXPOOL[i] = Crypto.TXPOOL[i]]_vars

\* C37: mine distributes the rewards without raising for every size of the
\* snapshot and every outcome of the draw; for the empty pool it returns the
\* payment to the miner, of value 0, alone
C37_MineNeverRaises ==
    op.name = "mine_hash" =>
        /\ op.outcome = "Mined"
        /\ Crypto.TXPOOL = <<>> =>
              /\ Len(op.response[3]) = 1
              /\ op.response[3][1][2].sendr_addr = PaymentName
              /\ op.response[3][1][2].value = 0

\* C38: the reward loop of mine ends for every snapshot of N >= 1
\* transactions and every fraction in [0, 1]: the floor(fraction * N) + 1
\* distinct transaction numbers it waits for are never more than N
C38_SamplingTargetWithinPool ==
    op.outcome = "Sampling" => op.num_tx_rewarded + 1 <= op.N

\* the sum of field `amount` over the records of kind `type` that
\* get_transactions_of_addr lists
ListedSum(listed, type, amount) ==
    SumOver({k \in 1..Len(listed) : listed[k][2].type = type},
            [k \in 1..Len(listed) |-> listed[k][2][amount]], 0)

\* C39: for every address string, in any letter case, get_balance_of_addr
\* and get_transactions_of_addr agree on whether the address exists, and
\* the balance is the final_value of the "receive" records minus the value
\* of the "send" records
C39_BalanceAgreesWithTransactions ==
    \A address \in QueryStrings :
        LET balance == get_balance_of_addr(Crypto, address)
            listed  == get_transactions_of_addr(Crypto, address)
        IN  /\ balance[1] = listed[1]
            /\ balance[2] = ListedSum(listed[2], "receive", "final_value")
                              - ListedSum(listed[2], "send", "value")

\* C40: a ledger loaded from the blocks another ledger persisted has the
\* mining fee, the reward, the next index and, for every address, the
\* balance that the persisting ledger had after its last seal
C40_RestartKeepsEconomicState ==
    [][(op.name = "seal" /\ op.outcome = "BlockCreated" /\ op'.name = "load")
          => /\ Crypto'.mining_fees = Crypto.mining_fees
             /\ Crypto'.reward_for_transaction = Crypto.reward_for_transaction
             /\ Crypto'.index = Crypto.index
             /\ \A address \in QueryStrings :
                   get_balance_of_addr(Crypto', address)
                      = get_balance_of_addr(Crypto, address)]_vars

====
